---- MODULE Spec2Model ----
(***************************************************************************)
(* Model of aws-git-backed-static-website-lambda.py: the CodePipeline      *)
(* handler that downloads a source ZIP, runs hugo on it and publishes the  *)
(* rendered tree with seven "aws s3 sync" commands, then reports the       *)
(* outcome to CodePipeline and removes its temporary directory.            *)
(***************************************************************************)
EXTENDS Integers, Sequences, FiniteSets, TLC

\* ---------------------------------------------------------------- bounds
MaxFiles == 1      \* files the site ever holds

\* ------------------------------------------------------ file names, globs
\* A file name is a sequence of characters.
js == <<"j", "s">>
css == <<"c", "s", "s">>
html == <<"h", "t", "m", "l">>
xml == <<"x", "m", "l">>
png == <<"p", "n", "g">>
jpg == <<"j", "p", "g">>
jpeg == <<"j", "p", "e", "g">>
otf == <<"o", "t", "f">>
eot == <<"e", "o", "t">>
svg == <<"s", "v", "g">>
ttf == <<"t", "t", "f">>
woff == <<"w", "o", "f", "f">>
woff2 == <<"w", "o", "f", "f", "2">>
json == <<"j", "s", "o", "n">>
upperJS == <<"J", "S">>
map == <<"m", "a", "p">>

Named(stem, ext) == stem \o <<".">> \o ext

\* The file names a rendered tree is drawn from: one per extension the rule
\* table names, and names the table does not name (a.json, a.JS, a.js.map,
\* and m, which has no extension at all).
Paths ==
    { Named(<<"a">>, e) : e \in { js, css, html, xml, png, jpg, jpeg, otf, eot,
                                   svg, ttf, woff, woff2, json, upperJS } }
    \cup { Named(Named(<<"a">>, js), map), <<"m">> }

\* The glob '*<literal>' of the command line: '*' matches any run of
\* characters, so the name matches iff it ends with the literal.
Glob(literal) == <<"*">> \o literal
Star == Glob(<<>>)
Fnmatch(name, pattern) ==
    LET lit == Tail(pattern)
    IN  /\ pattern[1] = "*"
        /\ Len(name) >= Len(lit)
        /\ SubSeq(name, Len(name) - Len(lit) + 1, Len(name)) = lit

Exclude(ext) == [kind |-> "exclude", pattern |-> Glob(<<".">> \o ext)]
Include(ext) == [kind |-> "include", pattern |-> Glob(<<".">> \o ext)]
ExcludeAll == [kind |-> "exclude", pattern |-> Star]

\* aws s3 filters: a file is included by default; the filters apply in the
\* order given and the last one whose pattern matches decides.
RECURSIVE Selected(_, _)
Selected(filters, name) ==
    IF filters = <<>> THEN TRUE
    ELSE LET last == filters[Len(filters)]
         IN  IF Fnmatch(name, last.pattern)
             THEN last.kind = "include"
             ELSE Selected(SubSeq(filters, 1, Len(filters) - 1), name)

\* ------------------------------------------------------------ rule table
\* ctype "inferred": the command carries no --content-type, the type is the
\* one the store client guesses.
TypesTuple == <<
    [filters |-> <<ExcludeAll, Include(js)>>,
     ctype |-> "application/javascript", cache |-> 7776000],
    [filters |-> <<ExcludeAll, Include(css)>>,
     ctype |-> "text/css", cache |-> 7776000],
    [filters |-> <<ExcludeAll, Include(html)>>,
     ctype |-> "text/html", cache |-> 600],
    [filters |-> <<ExcludeAll, Include(xml)>>,
     ctype |-> "text/xml", cache |-> 14400],
    [filters |-> <<ExcludeAll, Include(png), Include(jpg), Include(jpeg)>>,
     ctype |-> "inferred", cache |-> 7776000],
    [filters |-> <<ExcludeAll, Include(otf), Include(eot), Include(svg),
                   Include(ttf), Include(woff), Include(woff2)>>,
     ctype |-> "inferred", cache |-> 7776000],
    [filters |-> <<Exclude(js), Exclude(css), Exclude(html), Exclude(xml),
                   Exclude(png), Exclude(jpg), Exclude(jpeg), Exclude(svg),
                   Exclude(otf), Exclude(eot), Exclude(ttf), Exclude(woff),
                   Exclude(woff2)>>,
     ctype |-> "inferred", cache |-> 7200] >>

\* Mutant: the html rule carries the 90-day max-age of the rules above it.
typesHtmlLongCache == [TypesTuple EXCEPT ![3].cache = 7776000]

\* Mutant: the catch-all forgets --exclude '*.svg'.
typesNoSvgExclude ==
    [TypesTuple EXCEPT ![7].filters = SelectSeq(@, LAMBDA f : f # Exclude(svg))]

\* Mutant: the catch-all forgets --exclude '*.jpeg'.
typesNoJpegExclude ==
    [TypesTuple EXCEPT ![7].filters = SelectSeq(@, LAMBDA f : f # Exclude(jpeg))]

\* The tuple the loop of handler iterates over.
types == TypesTuple

NumTypes == Len(types)

\* ------------------------------------------------------ destination store
NoObj == [ctype |-> "none", cache |-> 0]

\* sync uploads a file that is missing in the destination or newer than the
\* object there. The files of an invocation are rendered after every upload
\* of an earlier invocation, so the only objects not older than the file are
\* those this invocation has written itself (the set up).
NeedsUpload(d, name, up) == d[name] = NoObj \/ name \notin up

\* The files one "aws s3 sync --acl public-read <filters> <dir> s3://<bucket>/"
\* uploads: the selected files of the directory that need uploading.
Uploads(d, tree, rule, up) ==
    { name \in tree : Selected(rule.filters, name) /\ NeedsUpload(d, name, up) }

\* Mutant: the command carries --delete, which removes the selected objects
\* that have no local file.
SyncWithDelete(d, tree, rule, up) ==
    [name \in Paths |->
        IF name \in Uploads(d, tree, rule, up)
        THEN [ctype |-> rule.ctype, cache |-> rule.cache]
        ELSE IF name \notin tree /\ Selected(rule.filters, name)
        THEN NoObj
        ELSE d[name]]

\* Mutant: the rule's metadata is applied only to objects the command
\* creates; an overwritten object is left with the store's defaults.
SyncMetadataOnCreateOnly(d, tree, rule, up) ==
    [name \in Paths |->
        IF name \in Uploads(d, tree, rule, up)
        THEN IF d[name] = NoObj
             THEN [ctype |-> rule.ctype, cache |-> rule.cache]
             ELSE [ctype |-> "binary/octet-stream", cache |-> 0]
        ELSE d[name]]

\* The bucket after that command: every uploaded file is put with the rule's
\* content type and cache control. The command carries no --delete: objects
\* without a local file stay as they are.
Sync(d, tree, rule, up) ==
    LET put == Uploads(d, tree, rule, up)
    IN  [name \in Paths |->
            IF name \in put
            THEN [ctype |-> rule.ctype, cache |-> rule.cache]
            ELSE d[name]]

\* -------------------------------------------------------------- the state
VARIABLES
    pc,            \* position in handler
    site,          \* the files the site's commits are made of
    repo,          \* the tree hugo renders from the source bundle of this invocation
    event,         \* shape of the event of this invocation
    job_id,        \* is the local job_id bound
    tmpdir,        \* "unbound", "exists" or "removed"
    public,        \* files under tmpdir/public
    hugo,          \* "none", or how the hugo command ended
    i,             \* index of the next entry of types
    issued,        \* indices of the sync commands executed this invocation
    failed,        \* index of the first sync command that exited non-zero, or 0
    raisedAt,      \* step whose exception reached the except clause
    successCalls,  \* put_job_success_result calls of this invocation
    failureCalls,  \* put_job_failure_result calls of this invocation
    downloads,     \* download_file calls of this invocation
    pending,       \* an exception is propagating out of handler
    dest,          \* the destination bucket: name -> object
    uploaded,      \* names whose object this invocation has written
    prev           \* tree and destination metadata of the preceding invocation,
                   \* kept while the same tree is published again

vars == << pc, site, repo, event, job_id, tmpdir, public, hugo, i, issued, failed,
           raisedAt, successCalls, failureCalls, downloads, pending, dest, uploaded,
           prev >>

Bounded(S, n) == { T \in SUBSET S : Cardinality(T) <= n }

NoPrev == <<>>

Ended == { "returned", "raised" }

Init ==
    /\ pc = "idle"
    /\ site \in Bounded(Paths, MaxFiles)
    /\ repo = {}
    /\ event = "none"
    /\ job_id = FALSE
    /\ tmpdir = "unbound"
    /\ public = {}
    /\ hugo = "none"
    /\ i = 1
    /\ issued = {}
    /\ failed = 0
    /\ raisedAt = "none"
    /\ successCalls = 0
    /\ failureCalls = 0
    /\ downloads = 0
    /\ pending = FALSE
    /\ dest = [name \in Paths |-> NoObj]
    /\ uploaded = {}
    /\ prev = NoPrev

\* CodePipeline invokes handler(event, context) for a commit of the site:
\* fresh locals, and a source bundle holding some of the site's files.
Invoke ==
    /\ pc \in { "idle" } \cup Ended
    /\ \E e \in { "ok", "no_job", "no_credentials" } : event' = e
    /\ repo' \in SUBSET site
    /\ pc' = "descriptor"
    /\ job_id' = FALSE
    /\ tmpdir' = "unbound"
    /\ public' = {}
    /\ hugo' = "none"
    /\ i' = 1
    /\ issued' = {}
    /\ failed' = 0
    /\ raisedAt' = "none"
    /\ successCalls' = 0
    /\ failureCalls' = 0
    /\ downloads' = 0
    /\ pending' = FALSE
    /\ uploaded' = {}
    /\ prev' = IF prev # NoPrev /\ prev[1].tree = repo' THEN prev ELSE NoPrev
    /\ UNCHANGED << site, dest >>

\* Lines 27-45: read the job descriptor and build the S3 client.
ReadDescriptor ==
    /\ pc = "descriptor"
    /\ \/ /\ event = "ok"
          /\ job_id' = TRUE
          /\ pc' = "download"
          /\ UNCHANGED raisedAt
       \/ /\ event = "no_job"            \* KeyError at line 27
          /\ job_id' = FALSE
          /\ pc' = "except"
          /\ raisedAt' = "descriptor"
       \/ /\ event = "no_credentials"    \* KeyError at line 31, job_id is bound
          /\ job_id' = TRUE
          /\ pc' = "except"
          /\ raisedAt' = "descriptor"
    /\ UNCHANGED << site, repo, event, tmpdir, public, hugo, i, issued, failed,
                    successCalls, failureCalls, downloads, pending, dest, uploaded,
                    prev >>

\* Lines 48-50: mkdtemp, then download_file; it raises when the object
\* cannot be fetched.
Download ==
    /\ pc = "download"
    /\ tmpdir' = "exists"
    /\ downloads' = downloads + 1
    /\ \/ /\ pc' = "extract"
          /\ UNCHANGED raisedAt
       \/ /\ pc' = "except"
          /\ raisedAt' = "download"
    /\ UNCHANGED << site, repo, event, job_id, public, hugo, i, issued, failed,
                    successCalls, failureCalls, pending, dest, uploaded, prev >>

\* Mutant: a malformed archive is not noticed and the handler goes on.
ExtractSwallowingError ==
    /\ pc = "extract"
    /\ pc' = "hugo"
    /\ \/ UNCHANGED raisedAt
       \/ raisedAt' = "extract"
    /\ UNCHANGED << site, repo, event, job_id, tmpdir, public, hugo, i, issued,
                    failed, successCalls, failureCalls, downloads, pending, dest,
                    uploaded, prev >>

\* Lines 52-53: extractall; it raises on a malformed archive.
Extract ==
    /\ pc = "extract"
    /\ \/ /\ pc' = "hugo"
          /\ UNCHANGED raisedAt
       \/ /\ pc' = "except"
          /\ raisedAt' = "extract"
    /\ UNCHANGED << site, repo, event, job_id, tmpdir, public, hugo, i, issued,
                    failed, successCalls, failureCalls, downloads, pending, dest,
                    uploaded, prev >>

\* Lines 55-56: os.popen('./hugo ...').read() returns the command's output
\* whatever its exit status, and the status is not looked at: after a
\* non-zero exit, which leaves no output tree, the handler goes on.
Hugo ==
    /\ pc = "hugo"
    /\ \/ /\ hugo' = "ok"
          /\ public' = repo
       \/ /\ hugo' = "nonzero"
          /\ public' = {}
    /\ pc' = "sync"
    /\ UNCHANGED << site, repo, event, job_id, tmpdir, i, issued, failed, raisedAt,
                    successCalls, failureCalls, downloads, pending, dest, uploaded,
                    prev >>

\* Lines 68-71, one iteration: os.popen(exec_me).read() for types[i]. As
\* for hugo, a non-zero exit is not noticed and the loop goes on. The
\* command cannot succeed when hugo left no public directory.
SyncStep ==
    /\ pc = "sync"
    /\ i <= NumTypes
    /\ issued' = issued \cup {i}
    /\ i' = i + 1
    /\ pc' = IF i = NumTypes THEN "success" ELSE "sync"
    /\ \/ /\ hugo = "ok"
          /\ dest' = Sync(dest, public, types[i], uploaded)
          /\ uploaded' = uploaded \cup Uploads(dest, public, types[i], uploaded)
          /\ UNCHANGED failed
       \/ /\ failed' = IF failed = 0 THEN i ELSE failed   \* it exits non-zero
          /\ UNCHANGED << dest, uploaded >>
    /\ UNCHANGED << site, repo, event, job_id, tmpdir, public, hugo, raisedAt,
                    successCalls, failureCalls, downloads, pending, prev >>

\* Line 74: put_job_success_result; the call itself may raise.
PutSuccess ==
    /\ pc = "success"
    /\ successCalls' = successCalls + 1
    /\ \/ /\ pc' = "finally"
          /\ UNCHANGED raisedAt
       \/ /\ pc' = "except"
          /\ raisedAt' = "success"
    /\ prev' = IF hugo = "ok" /\ failed = 0
               THEN << [tree |-> public, meta |-> dest] >>
               ELSE NoPrev
    /\ UNCHANGED << site, repo, event, job_id, tmpdir, public, hugo, i, issued,
                    failed, failureCalls, downloads, pending, dest, uploaded >>

\* Lines 76-80: the except clause. With job_id unbound the call's argument
\* raises NameError before any call is made; the call itself may raise too.
Except ==
    /\ pc = "except"
    /\ pc' = "finally"
    /\ \/ /\ ~job_id
          /\ pending' = TRUE
          /\ UNCHANGED failureCalls
       \/ /\ job_id
          /\ failureCalls' = failureCalls + 1
          /\ pending' \in BOOLEAN
    /\ prev' = NoPrev
    /\ UNCHANGED << site, repo, event, job_id, tmpdir, public, hugo, i, issued,
                    failed, raisedAt, successCalls, downloads, dest, uploaded >>

\* Lines 82-85: shutil.rmtree(tmpdir), then return "complete" unless an
\* exception is propagating. With tmpdir unbound rmtree's argument raises.
Finally ==
    /\ pc = "finally"
    /\ \/ /\ tmpdir = "unbound"
          /\ raisedAt' = "finally"
          /\ pending' = TRUE
          /\ pc' = "raised"
          /\ UNCHANGED tmpdir
       \/ /\ tmpdir # "unbound"
          /\ tmpdir' = "removed"
          /\ pc' = IF pending THEN "raised" ELSE "returned"
          /\ UNCHANGED << raisedAt, pending >>
    /\ UNCHANGED << site, repo, event, job_id, public, hugo, i, issued, failed,
                    successCalls, failureCalls, downloads, dest, uploaded, prev >>

Next ==
    \/ Invoke
    \/ ReadDescriptor
    \/ Download
    \/ Extract
    \/ Hugo
    \/ SyncStep
    \/ PutSuccess
    \/ Except
    \/ Finally

Spec == Init /\ [][Next]_vars

\* ================================================================ claims
Max(S) == CHOOSE x \in S : \A y \in S : y <= x
Dots(name) == { k \in 1..Len(name) : name[k] = "." }
\* The extension of a file name: what follows its last dot, nothing when it
\* has no dot.
Ext(name) ==
    IF Dots(name) = {} THEN <<>>
    ELSE SubSeq(name, Max(Dots(name)) + 1, Len(name))

AllIssued == issued = 1..NumTypes
\* Every command of this invocation succeeded.
Clean == hugo = "ok" /\ failed = 0

\* C1: whatever step fails, an invocation that has ended has made exactly one
\* outcome callback in total, one success or one failure, never zero and
\* never both.
C1_ExactlyOneCallback ==
    pc \in Ended => successCalls + failureCalls = 1

\* C2: when the generator exits non-zero, the invocation issues no sync at
\* all, makes exactly one failure callback and no success callback, and
\* removes the working directory.
C2_GeneratorFailure ==
    (pc \in Ended /\ hugo = "nonzero") =>
        /\ issued = {}
        /\ failureCalls = 1
        /\ successCalls = 0
        /\ tmpdir = "removed"

\* C3: when the k-th sync fails after a successful generation, what the
\* syncs before it uploaded is still in the destination, the syncs after it
\* are never executed and exactly one failure callback and no success
\* callback is made.
C3_SyncFailure ==
    (pc \in Ended /\ hugo = "ok" /\ failed # 0) =>
        /\ \A name \in public :
              (\E k \in 1..(failed - 1) : Selected(types[k].filters, name))
                  => dest[name] # NoObj
        /\ issued = 1..failed
        /\ failureCalls = 1
        /\ successCalls = 0

\* C4: when the invocation ends the working directory is gone on every exit
\* path, and the cleanup step has not failed, also when the error came
\* before the working directory was created.
C4_CleanupAlways ==
    pc \in Ended => (tmpdir # "exists" /\ raisedAt # "finally")

\* C5 as stated: after a successful publication run the destination holds no
\* object whose path is absent from the rendered tree.
SuccessfulRun == pc = "returned" /\ successCalls = 1 /\ failureCalls = 0 /\ Clean
C6_StagingFailure ==
    (pc \in Ended /\ raisedAt \in { "download", "extract" }) =>
        /\ downloads = 1
        /\ hugo = "none"
        /\ issued = {}
        /\ successCalls = 0
        /\ failureCalls = 1
C6_Witness ==
    pc \in Ended /\ raisedAt = "extract" /\ failureCalls = 1

\* The table of claim C7, by extension.
C7_Expected(ext) ==
    CASE ext = js -> [ctype |-> "application/javascript", cache |-> 7776000]
      [] ext = css -> [ctype |-> "text/css", cache |-> 7776000]
      [] ext = html -> [ctype |-> "text/html", cache |-> 600]
      [] ext = xml -> [ctype |-> "text/xml", cache |-> 14400]
      [] ext \in { png, jpg, jpeg, otf, eot, svg, ttf, woff, woff2 } ->
            [ctype |-> "inferred", cache |-> 7776000]
      [] OTHER -> [ctype |-> "inferred", cache |-> 7200]

\* C7: after all seven syncs have run in order and succeeded, every rendered
\* file has in the destination the content type and cache control the table
\* gives for its extension.
C7_FinalMetadata ==
    (AllIssued /\ Clean) => \A name \in public : dest[name] = C7_Expected(Ext(name))
C7_Witness ==
    /\ AllIssued /\ Clean
    /\ \E name \in public : Ext(name) = woff2 /\ dest[name].cache = 7776000

\* The extensions the include filters of a rule name.
IncludedExts(k) ==
    { e \in { js, css, html, xml, png, jpg, jpeg, otf, eot, svg, ttf, woff, woff2,
              json, upperJS, map } :
        \E n \in 1..Len(types[k].filters) : types[k].filters[n] = Include(e) }
ExcludedExts(k) ==
    { e \in { js, css, html, xml, png, jpg, jpeg, otf, eot, svg, ttf, woff, woff2,
              json, upperJS, map } :
        \E n \in 1..Len(types[k].filters) : types[k].filters[n] = Exclude(e) }
SpecificExts == UNION { IncludedExts(k) : k \in 1..(NumTypes - 1) }
SpecificRule(ext) == CHOOSE k \in 1..(NumTypes - 1) : ext \in IncludedExts(k)

\* C8: the catch-all sync never writes the object of a file whose extension
\* belongs to one of rules 1-6, and once all syncs have succeeded such a file
\* carries the specific rule's content type and cache control.
C8_CatchAllKeepsSpecific ==
    /\ [][(pc = "sync" /\ i = NumTypes) =>
            \A name \in Paths :
                Ext(name) \in SpecificExts => dest'[name] = dest[name]]_vars
    /\ []((AllIssued /\ Clean) =>
            \A name \in public :
                Ext(name) \in SpecificExts =>
                    /\ dest[name].ctype = types[SpecificRule(Ext(name))].ctype
                    /\ dest[name].cache = types[SpecificRule(Ext(name))].cache)
C8_Witness ==
    /\ AllIssued /\ Clean
    /\ \E name \in public : Ext(name) = svg /\ dest[name].cache = 7776000

\* C9: publishing the same tree again with the full sequence of syncs leaves
\* the destination with the same object set, content types and cache
\* controls as the first publication did.
C9_Idempotent ==
    (pc = "success" /\ Clean /\ prev # NoPrev) =>
        (prev[1].tree = public /\ dest = prev[1].meta)
C9_Witness ==
    /\ pc = "success" /\ Clean /\ prev # NoPrev
    /\ public # {}
    /\ uploaded = public

\* The state of the loop of syncs, and one sync applied to it.
SyncState(st, k) ==
    [dest |-> Sync(st.dest, public, types[k], st.uploaded),
     uploaded |-> st.uploaded \cup Uploads(st.dest, public, types[k], st.uploaded)]
\* Every state the syncs can produce from the states S, in whatever order
\* and however often they run.
RECURSIVE AnyOrder(_)
AnyOrder(S) ==
    LET T == S \cup { SyncState(st, k) : st \in S, k \in 1..NumTypes }
    IN  IF T = S THEN S ELSE AnyOrder(T)

\* The include sets of rules 1-6 are pairwise disjoint and the catch-all
\* excludes exactly their union.
TableSplitsExtensions ==
    /\ \A j, k \in 1..(NumTypes - 1) :
          j # k => IncludedExts(j) \cap IncludedExts(k) = {}
    /\ ExcludedExts(NumTypes) = SpecificExts

\* C10: the include sets of rules 1-6 are pairwise disjoint, the catch-all
\* excludes exactly their union, every rendered file is selected by exactly
\* one of the seven syncs, and any two syncs commute on every state the syncs
\* can produce, so that the final metadata does not depend on their order.
C10_Partition ==
    /\ TableSplitsExtensions
    /\ \A name \in public :
          Cardinality({ k \in 1..NumTypes : Selected(types[k].filters, name) }) = 1
    /\ (pc = "sync" /\ i = 1 /\ hugo = "ok") =>
          \A st \in AnyOrder({ [dest |-> dest, uploaded |-> uploaded] }) :
              \A j, k \in 1..NumTypes :
                  j < k =>
                      SyncState(SyncState(st, j), k) = SyncState(SyncState(st, k), j)
C10_Witness ==
    /\ pc = "sync" /\ i = 1 /\ hugo = "ok"
    /\ \E name \in public : Ext(name) = jpeg /\ dest[name] # NoObj

====
